---- MODULE Spec2Model ----
(***************************************************************************)
(* A model of dup.py: the catalog of one scan root, the pre-filters, the   *)
(* elimination stages (get_duplicates), the group filters, the resolver    *)
(* and the action phase.                                                   *)
(*                                                                         *)
(* Strings of the program are sequences of tokens.  A token is a one       *)
(* character string, or a digest (a string that starts with "#" or "{")    *)
(* that stands for the 128 hexadecimal characters of a blake2b digest.     *)
(* None is the empty sequence; an optional number is <<>> or <<n>>.        *)
(***************************************************************************)
EXTENDS Integers, Sequences, FiniteSets, TLC

VARIABLES pc, params, disk, all_dirs, all_files, all_roots, cache,
          dir_dups, file_dups, res_dir_dups_groups, res_file_dups_groups,
          disk0, previous

vars == <<pc, params, disk, all_dirs, all_files, all_roots, cache,
          dir_dups, file_dups, res_dir_dups_groups, res_file_dups_groups,
          disk0, previous>>

(***************************************************************************)
(* Bounds of the model and constants of the program.                       *)
(***************************************************************************)
MaxFiles == 3

CompactLimit == 1000

DigestLen == 128

None == <<>>

(***************************************************************************)
(* Characters and their code points (the order of sorted()).               *)
(***************************************************************************)
Ord == [c \in {"-", "/", "a", "b", "c", "d", "r", "s", "x", "y", "z"} |->
          CASE c = "-" -> 45 [] c = "/" -> 47
            [] c = "a" -> 97 [] c = "b" -> 98 [] c = "c" -> 99 [] c = "d" -> 100
            [] c = "r" -> 114 [] c = "s" -> 115
            [] c = "x" -> 120 [] c = "y" -> 121 [] c = "z" -> 122]

RECURSIVE StrLess(_, _)
StrLess(p, q) ==
    IF q = <<>> THEN FALSE
    ELSE IF p = <<>> THEN TRUE
    ELSE IF Head(p) = Head(q) THEN StrLess(Tail(p), Tail(q))
    ELSE Ord[Head(p)] < Ord[Head(q)]

RECURSIVE SortedSeq(_)
SortedSeq(S) ==
    IF S = {} THEN <<>>
    ELSE LET m == CHOOSE x \in S : \A y \in S \ {x} : StrLess(x, y)
         IN <<m>> \o SortedSeq(S \ {m})

Reverse(s) == [i \in 1..Len(s) |-> s[Len(s) + 1 - i]]

Range(s) == {s[i] : i \in DOMAIN s}

(***************************************************************************)
(* Paths.                                                                  *)
(***************************************************************************)
Join(root, name) == root \o <<"/">> \o name

RECURSIVE LastSlash(_, _)
LastSlash(p, i) == IF i = 0 \/ p[i] = "/" THEN i ELSE LastSlash(p, i - 1)

Dirname(p) == SubSeq(p, 1, LastSlash(p, Len(p)) - 1)

Basename(p) == SubSeq(p, LastSlash(p, Len(p)) + 1, Len(p))

IsPrefix(p, q) == Len(p) <= Len(q) /\ SubSeq(q, 1, Len(p)) = p

IsSuffix(p, q) == Len(p) <= Len(q) /\ SubSeq(q, Len(q) - Len(p) + 1, Len(q)) = p

\* q lies strictly below directory p
Under(p, q) == IsPrefix(p \o <<"/">>, q)

ScanRoot == <<"/", "r">>

(***************************************************************************)
(* Ordered dictionaries of records keyed by "path".                        *)
(***************************************************************************)
Paths(d) == {d[i].path : i \in DOMAIN d}

Has(d, path) == \E i \in DOMAIN d : d[i].path = path

Get(d, path) == d[CHOOSE i \in DOMAIN d : d[i].path = path]

Del(d, path) == SelectSeq(d, LAMBDA r : r.path # path)

Put(d, rec) == [i \in DOMAIN d |-> IF d[i].path = rec.path THEN rec ELSE d[i]]

\* defaultdict(list): all_roots[root]
RootsOf(roots, root) == IF root \in DOMAIN roots THEN roots[root] ELSE <<>>

check(param) == param \in params.check

(***************************************************************************)
(* The file system: directories, regular files (bytes and mtime) and       *)
(* symbolic links.                                                         *)
(***************************************************************************)
\* os.walk lists a directory in the order the file system returns its entries
Listing(dk, S) == IF dk.rev THEN Reverse(SortedSeq(S)) ELSE SortedSeq(S)

ChildDirs(dk, d) == Listing(dk, {p \in dk.dirs : p # d /\ Dirname(p) = d})

ChildFiles(dk, d) == Listing(dk, {p \in DOMAIN dk.files : Dirname(p) = d})

DirRec(path, root) ==
    [path |-> path, root |-> root, name |-> Basename(path),
     size |-> 0, flen |-> 0, dlen |-> 0, keys |-> <<>>]

FileRec(dk, path) ==
    [path |-> path, root |-> Dirname(path), name |-> Basename(path),
     size |-> Len(dk.files[path].data), keys |-> <<>>,
     date |-> dk.files[path].date, node |-> path, into |-> FALSE]

\* os.walk, top-down: the directories of a visited directory are entered in
\* res_dirs, its files in res_files, then each directory is visited in turn.
RECURSIVE Walk(_, _, _, _)
Walk(dk, stack, ds, fs) ==
    IF stack = <<>> THEN [dirs |-> ds, files |-> fs]
    ELSE LET top == Head(stack)
             subs == ChildDirs(dk, top)
             fls == ChildFiles(dk, top)
         IN Walk(dk, subs \o Tail(stack),
                 ds \o [i \in DOMAIN subs |-> DirRec(subs[i], top)],
                 fs \o [i \in DOMAIN fls |-> FileRec(dk, fls[i])])

\* res_dirs[root]["size"] += size; res_dirs[root]["flen"] += 1
RECURSIVE AddFiles(_, _)
AddFiles(ds, fs) ==
    IF fs = <<>> THEN ds
    ELSE LET f == Head(fs)
             d == Get(ds, f.root)
         IN AddFiles(Put(ds, [d EXCEPT !.size = @ + f.size, !.flen = @ + 1]),
                     Tail(fs))

\* for _, dir_info in sorted(res_dirs.items(), reverse=True)
RECURSIVE AddDirs(_, _)
AddDirs(ds, order) ==
    IF order = <<>> THEN ds
    ELSE LET d == Get(ds, Head(order))
         IN IF d.root = None THEN AddDirs(ds, Tail(order))
            ELSE LET r == Get(ds, d.root)
                 IN AddDirs(Put(ds, [r EXCEPT !.size = @ + d.size,
                                              !.dlen = @ + 1]),
                            Tail(order))

collect_data(dk, dir_path) ==
    LET w == Walk(dk, <<dir_path>>, <<DirRec(dir_path, None)>>, <<>>)
        ds == AddFiles(w.dirs, w.files)
    IN [dirs |-> AddDirs(ds, Reverse(SortedSeq(Paths(ds)))), files |-> w.files]

\* get_roots: parent directory -> the paths of its files, in catalog order
get_roots(files) ==
    [r \in {files[i].root : i \in DOMAIN files} |->
        LET sel == SelectSeq(files, LAMBDA f : f.root = r)
        IN [i \in DOMAIN sel |-> sel[i].path]]

(***************************************************************************)
(* Pre-filters.                                                            *)
(***************************************************************************)
\* rm[key] = True on a dict: a key already present keeps its place
AddKey(rm, key) == IF key \in Range(rm) THEN rm ELSE Append(rm, key)

RECURSIVE AddKeys(_, _)
AddKeys(rm, keys) ==
    IF keys = <<>> THEN rm ELSE AddKeys(AddKey(rm, Head(keys)), Tail(keys))

\* for file_path in rm_files: del all_files[file_path]    (KeyError: ok = FALSE)
RECURSIVE DelFiles(_, _)
DelFiles(files, rm) ==
    IF rm = <<>> THEN [files |-> files, ok |-> TRUE]
    ELSE IF ~Has(files, Head(rm)) THEN [files |-> files, ok |-> FALSE]
    ELSE DelFiles(Del(files, Head(rm)), Tail(rm))

\* for dir_path in rm_dirs: del all_dirs[dir_path]; dirs_only adds its files
RECURSIVE DelDirs(_, _, _, _)
DelDirs(dirs, rm_files, rm_dirs, roots) ==
    IF rm_dirs = <<>> THEN [dirs |-> dirs, rm_files |-> rm_files]
    ELSE LET dir_path == Head(rm_dirs)
         IN DelDirs(Del(dirs, dir_path),
                    IF params.dirs_only
                    THEN AddKeys(rm_files, RootsOf(roots, dir_path))
                    ELSE rm_files,
                    Tail(rm_dirs), roots)

\* lines 655-656
PostFiles(dirs, f) == [dirs |-> dirs, files |-> f.files, ok |-> f.ok]

PostDirs(d, files) == PostFiles(d.dirs, DelFiles(files, d.rm_files))

post_filter(rm_dirs, rm_files, dirs, files, roots) ==
    PostDirs(IF ~params.files_only
             THEN DelDirs(dirs, rm_files, rm_dirs, roots)
             ELSE [dirs |-> dirs, rm_files |-> rm_files],
             files)

PathsWhere(d, P(_)) ==
    LET sel == SelectSeq(d, P) IN [i \in DOMAIN sel |-> sel[i].path]

filter_empty(dirs, files, roots) ==
    IF params.include_empty_dirs /\ params.include_empty_files
    THEN [dirs |-> dirs, files |-> files, ok |-> TRUE]
    ELSE post_filter(
           IF ~params.files_only /\ ~params.include_empty_dirs
           THEN PathsWhere(dirs, LAMBDA r : r.size < 1) ELSE <<>>,
           IF ~params.include_empty_files
           THEN PathsWhere(files, LAMBDA r : r.size < 1) ELSE <<>>,
           dirs, files, roots)

OutOfRange(size, min, max) ==
    \/ min # None /\ min[1] > size
    \/ max # None /\ max[1] < size

filter_files_only(files) ==
    IF ~params.files_only
       \/ (params.min_file_size = None /\ params.max_file_size = None)
    THEN files
    ELSE SelectSeq(files, LAMBDA r :
             ~OutOfRange(r.size, params.min_file_size, params.max_file_size))

\* fnmatch for the patterns "<literal>" and "*<literal>"
fnmatch(path, pattern) ==
    IF pattern.star THEN IsSuffix(pattern.lit, path) ELSE path = pattern.lit

filter_exclude(dirs, files, roots) ==
    IF params.exclude_dirs = {} /\ params.exclude_files = {}
    THEN [dirs |-> dirs, files |-> files, ok |-> TRUE]
    ELSE post_filter(
           IF ~params.files_only /\ params.exclude_dirs # {}
           THEN PathsWhere(dirs, LAMBDA r :
                    \E pat \in params.exclude_dirs : fnmatch(r.path, pat))
           ELSE <<>>,
           IF params.exclude_files # {}
           THEN PathsWhere(files, LAMBDA r :
                    \E pat \in params.exclude_files : fnmatch(r.path, pat))
           ELSE <<>>,
           dirs, files, roots)

(***************************************************************************)
(* Keys and digests.                                                       *)
(***************************************************************************)
\* str(n)
RECURSIVE Str(_)
Str(n) == IF n < 10 THEN <<ToString(n)>>
          ELSE Str(n \div 10) \o <<ToString(n % 10)>>

RECURSIVE Flat(_)
Flat(toks) == IF toks = <<>> THEN "" ELSE Head(toks) \o "," \o Flat(Tail(toks))

RECURSIVE Bytes(_)
Bytes(data) == IF data = <<>> THEN "" ELSE ToString(Head(data)) \o Bytes(Tail(data))

\* hashlib.blake2b(data).hexdigest(), one digest per byte string
Blake2b(data) == "#" \o Bytes(data)

\* get_hash of a key string
get_hash(keys) == "{" \o Flat(keys) \o "}"

\* len(keys): a digest counts for its 128 characters
Characters == DOMAIN Ord \cup {":", "<", ">"} \cup {ToString(i) : i \in 0..9}

RECURSIVE KeyLen(_)
KeyLen(keys) ==
    IF keys = <<>> THEN 0
    ELSE (IF Head(keys) \in Characters THEN 1 ELSE DigestLen) + KeyLen(Tail(keys))

compact_keys(keys) == IF KeyLen(keys) > CompactLimit THEN <<get_hash(keys)>> ELSE keys

\* the bytes get_file_hash reads: seek(offset, 0 if offset >= 0 else 2), then
\* at most size bytes, or everything up to the end
ReadBytes(data, offset, size) ==
    LET start == IF offset = None THEN 0
                 ELSE IF offset[1] >= 0 THEN offset[1]
                 ELSE Len(data) + offset[1]
        stop == IF size = None \/ start + size[1] > Len(data)
                THEN Len(data) ELSE start + size[1]
    IN SubSeq(data, start + 1, stop)

\* cache.set((node, offset, size), file_hash); return file_hash
CacheSet(ch, k, h) == [hash |-> h, cache |-> (k :> h) @@ ch]

\* CacheGet that serves the digest of another node with the same offset and size
CacheGet_anynode(ch, dk, file_info, offset, size, k) ==
    IF \E k2 \in DOMAIN ch : k2[2] = k[2] /\ k2[3] = k[3]
    THEN CacheSet(ch, k, ch[CHOOSE k2 \in DOMAIN ch : k2[2] = k[2] /\ k2[3] = k[3]])
    ELSE CacheSet(ch, k, Blake2b(ReadBytes(dk.files[file_info.path].data, offset, size)))

\* cache.get((node, offset, size)), else the digest of the bytes read
CacheGet(ch, dk, file_info, offset, size, k) ==
    IF k \in DOMAIN ch
    THEN [hash |-> ch[k], cache |-> ch]
    ELSE CacheSet(ch, k, Blake2b(ReadBytes(dk.files[file_info.path].data, offset, size)))

get_file_hash(ch, dk, file_info, offset, size) ==
    CacheGet(ch, dk, file_info, offset, size, <<file_info.node, offset, size>>)

(***************************************************************************)
(* The discriminators of the four stages (the lambdas of                   *)
(* get_all_duplicates).  A conditional expression binds weaker than "+",   *)
(* so the metadata lambda is  A if filename else (B if size else (C if     *)
(* date else D)).                                                          *)
(***************************************************************************)
MetaKey(file) ==
    IF check("filename") THEN <<"<">> \o file.name \o <<"/">>
    ELSE IF check("size") THEN Str(file.size) \o <<"/">>
    ELSE IF check("date") THEN Str(file.date) \o <<"/">>
    ELSE <<">">>

\* str(key or ""), with the cache as get_file_hash left it
Keyed(r) == [key |-> <<r.hash>>, cache |-> r.cache]

Discriminator(stage, ch, dk, file) ==
    CASE stage = "meta" -> [key |-> MetaKey(file), cache |-> ch]
      [] stage = "firstbytes" ->
           IF file.size > params.chunk
           THEN Keyed(get_file_hash(ch, dk, file, None, <<params.chunk>>))
           ELSE Keyed(get_file_hash(ch, dk, file, None, None))
      [] stage = "lastbytes" ->
           IF file.size > params.chunk * 2
           THEN Keyed(get_file_hash(ch, dk, file, <<-params.chunk>>, None))
           ELSE [key |-> None, cache |-> ch]
      [] stage = "hash" ->
           IF file.size > params.chunk
           THEN Keyed(get_file_hash(ch, dk, file, None, None))
           ELSE [key |-> None, cache |-> ch]

(***************************************************************************)
(* remove_unique and get_duplicates.                                       *)
(***************************************************************************)
RECURSIVE remove_unique(_, _, _, _)
\* remove_unique that leaves the files of the directories it removes
remove_unique_nofiles(root, dirs, files, roots) ==
    IF root = None \/ ~Has(dirs, root) THEN [dirs |-> dirs, files |-> files]
    ELSE remove_unique(Get(dirs, root).root, Del(dirs, root), files, roots)

\* remove_unique that removes the directory it is given and stops
remove_unique_once(root, dirs, files, roots) ==
    IF root = None \/ ~Has(dirs, root) THEN [dirs |-> dirs, files |-> files]
    ELSE [dirs |-> Del(dirs, root),
          files |-> IF params.dirs_only
                    THEN SelectSeq(files, LAMBDA f : f.path \notin Range(RootsOf(roots, root)))
                    ELSE files]

remove_unique(root, dirs, files, roots) ==
    IF root = None \/ ~Has(dirs, root) THEN [dirs |-> dirs, files |-> files]
    ELSE remove_unique(
           Get(dirs, root).root,
           Del(dirs, root),
           IF params.dirs_only
           THEN SelectSeq(files, LAMBDA f : f.path \notin Range(RootsOf(roots, root)))
           ELSE files,
           roots)

\* DirMetaKeys with the directory name always part of the key
DirMetaKeys_named(dirs) ==
    [i \in DOMAIN dirs |->
       [dirs[i] EXCEPT !.keys =
          <<":">> \o dirs[i].name \o <<":">>
          \o (IF check("dircount") THEN Str(dirs[i].dlen) \o <<":">> ELSE <<>>)
          \o (IF check("filecount") THEN Str(dirs[i].flen) \o <<":">> ELSE <<>>)]]

\* lines 485-493: the metadata key of every directory
DirMetaKeys(dirs) ==
    [i \in DOMAIN dirs |->
       [dirs[i] EXCEPT !.keys =
          <<":">>
          \o (IF check("dirname") THEN dirs[i].name \o <<":">> ELSE <<>>)
          \o (IF check("dircount") THEN Str(dirs[i].dlen) \o <<":">> ELSE <<>>)
          \o (IF check("filecount") THEN Str(dirs[i].flen) \o <<":">> ELSE <<>>)]]

\* lines 496-498: the key of every file, with the cache threaded through
RECURSIVE FileKeys(_, _, _, _, _)
\* file_info["keys"] = compact_keys(file_info["keys"] + str(key or ""))
SetFileKey(stage, files, i, r, dk) ==
    FileKeys(stage, [files EXCEPT ![i].keys = compact_keys(@ \o r.key)],
             i + 1, r.cache, dk)

FileKeys(stage, files, i, ch, dk) ==
    IF i > Len(files) THEN [files |-> files, cache |-> ch]
    ELSE SetFileKey(stage, files, i, Discriminator(stage, ch, dk, files[i]), dk)

\* keys_paths[rec["keys"]].append(path), in the order of the dict
RECURSIVE GroupByKeys(_, _)
GroupByKeys(recs, acc) ==
    IF recs = <<>> THEN acc
    ELSE LET r == Head(recs)
         IN IF \E j \in DOMAIN acc : acc[j].keys = r.keys
            THEN LET j == CHOOSE j \in DOMAIN acc : acc[j].keys = r.keys
                 IN GroupByKeys(Tail(recs),
                                [acc EXCEPT ![j].paths = Append(@, r.path)])
            ELSE GroupByKeys(Tail(recs),
                             Append(acc, [keys |-> r.keys, paths |-> <<r.path>>]))

\* all_dirs[root]["keys"] += ":" + keys, for every path of a group
RECURSIVE AddFileKeys(_, _, _, _)
AddFileKeys(paths, keys, dirs, files) ==
    IF paths = <<>> THEN dirs
    ELSE LET path == Head(paths)
             root == IF Has(files, path) THEN Get(files, path).root ELSE None
         IN IF root # None /\ Has(dirs, root)
            THEN AddFileKeys(Tail(paths), keys,
                   Put(dirs, [Get(dirs, root) EXCEPT !.keys = @ \o <<":">> \o keys]),
                   files)
            ELSE AddFileKeys(Tail(paths), keys, dirs, files)

\* lines 502-514
RECURSIVE HandleFileGroups(_, _, _, _)
HandleFileGroups(groups, dirs, files, roots) ==
    IF groups = <<>> THEN [dirs |-> dirs, files |-> files]
    ELSE LET g == Head(groups)
             path == g.paths[1]
         IN IF Len(g.paths) = 1
            THEN IF Has(files, path)
                 THEN IF ~params.files_only
                      THEN LET r == remove_unique(Get(files, path).root, dirs,
                                                  Del(files, path), roots)
                           IN HandleFileGroups(Tail(groups), r.dirs, r.files, roots)
                      ELSE HandleFileGroups(Tail(groups), dirs, Del(files, path), roots)
                 ELSE HandleFileGroups(Tail(groups), dirs, files, roots)
            ELSE IF ~params.files_only
                 THEN HandleFileGroups(Tail(groups),
                        AddFileKeys(g.paths, g.keys, dirs, files), files, roots)
                 ELSE HandleFileGroups(Tail(groups), dirs, files, roots)

\* lines 518-522: fold every directory's key into its parent's key
RECURSIVE FoldDirKeys(_, _)
FoldDirKeys(order, dirs) ==
    IF order = <<>> THEN dirs
    ELSE LET d == Get(dirs, Head(order))
         IN IF d.root # None /\ Has(dirs, d.root)
            THEN FoldDirKeys(Tail(order),
                   Put(dirs, [Get(dirs, d.root) EXCEPT
                                !.keys = compact_keys(@ \o <<"/">> \o d.keys)]))
            ELSE FoldDirKeys(Tail(order), dirs)

\* DirOrder without reverse=True
DirOrder_forward(dirs) == SortedSeq(Paths(dirs))

\* sorted(all_dirs.items(), reverse=True)
DirOrder(dirs) == Reverse(SortedSeq(Paths(dirs)))

\* the members of a group that are still in the working set
Members(paths, d) ==
    LET sel == SelectSeq(paths, LAMBDA p : Has(d, p))
    IN [i \in DOMAIN sel |-> Get(d, sel[i])]

\* lines 527-533
RECURSIVE HandleDirGroups(_, _, _, _, _)
HandleDirGroups(groups, dirs, files, roots, dups) ==
    IF groups = <<>> THEN [dirs |-> dirs, files |-> files, dups |-> dups]
    ELSE LET g == Head(groups)
         IN IF Len(g.paths) = 1
            THEN LET r == remove_unique(g.paths[1], dirs, files, roots)
                 IN HandleDirGroups(Tail(groups), r.dirs, r.files, roots, dups)
            ELSE LET m == Members(g.paths, dirs)
                 IN HandleDirGroups(Tail(groups), dirs, files, roots,
                      IF m = <<>> THEN dups
                      ELSE Append(dups, [keys |-> g.keys, dups |-> m]))

\* lines 536-540
RECURSIVE FileDups(_, _, _)
FileDups(groups, files, dups) ==
    IF groups = <<>> THEN dups
    ELSE LET g == Head(groups)
             m == Members(g.paths, files)
         IN FileDups(Tail(groups), files,
              IF Len(g.paths) > 1 /\ m # <<>>
              THEN Append(dups, [keys |-> g.keys, dups |-> m]) ELSE dups)

\* lines 535-546
Finish(file_keys_paths, d, ch) ==
    [dirs |-> d.dirs, files |-> d.files, cache |-> ch,
     dir_dups |-> d.dups,
     file_dups |-> FileDups(file_keys_paths, d.files, <<>>)]

\* DirGroups that keeps the directories of a unique key, as groups of one
DirGroups_singles(dirs, files, roots) ==
    [dirs |-> dirs, files |-> files,
     dups |-> [i \in DOMAIN GroupByKeys(dirs, <<>>) |->
                 [keys |-> GroupByKeys(dirs, <<>>)[i].keys,
                  dups |-> Members(GroupByKeys(dirs, <<>>)[i].paths, dirs)]]]

\* lines 524-533
DirGroups(dirs, files, roots) ==
    HandleDirGroups(GroupByKeys(dirs, <<>>), dirs, files, roots, <<>>)

\* lines 516-533
Directories(u, roots) ==
    IF ~params.files_only
    THEN DirGroups(FoldDirKeys(DirOrder(u.dirs), u.dirs), u.files, roots)
    ELSE [dirs |-> u.dirs, files |-> u.files, dups |-> <<>>]

\* lines 501-546
Eliminate(file_keys_paths, dirs, files, roots, ch) ==
    Finish(file_keys_paths,
           Directories(HandleFileGroups(file_keys_paths, dirs, files, roots), roots),
           ch)

\* lines 499-546
Grouped(k, dirs, roots) ==
    Eliminate(GroupByKeys(k.files, <<>>), dirs, k.files, roots, k.cache)

get_duplicates(stage, dirs, files, roots, ch, dk) ==
    Grouped(FileKeys(stage, files, 1, ch, dk),
            IF ~params.files_only THEN DirMetaKeys(dirs) ELSE dirs,
            roots)

(***************************************************************************)
(* Group filters, compaction and the resolver.  A group dictionary is a    *)
(* sequence of [keys, dups]; a result is a sequence of lists of records.   *)
(***************************************************************************)
HasKey(groups, keys) == \E i \in DOMAIN groups : groups[i].keys = keys

filter_dups_groups(dups_groups, func(_)) ==
    SelectSeq(dups_groups, LAMBDA g : ~func(g.dups))

\* TooFew that lets every group through
TooFew_never(count, dups) == FALSE

TooFew(count, dups) == count > Len(dups)

\* lines 784-790: the parents' keys seen for one group
RECURSIVE ParentKeys(_, _, _)
ParentKeys(dups, dirs, roots) ==
    IF dups = <<>> THEN roots
    ELSE LET root == Head(dups).root
             root_keys == IF root # None /\ Has(dirs, root)
                          THEN Get(dirs, root).keys ELSE None
         IN IF root_keys = None
            THEN ParentKeys(Tail(dups), dirs, <<>>)
            ELSE ParentKeys(Tail(dups), dirs, AddKey(roots, root_keys))

\* lines 781-795: the keys scheduled for removal
RECURSIVE ToRemove(_, _, _)
\* ToRemove that never schedules the group's own key
ToRemove_parents(groups, dirs, to_remove) ==
    IF groups = <<>> THEN to_remove
    ELSE ToRemove(Tail(groups), dirs,
                  IF Len(ParentKeys(Head(groups).dups, dirs, <<>>)) > 1
                  THEN AddKeys(to_remove, ParentKeys(Head(groups).dups, dirs, <<>>))
                  ELSE to_remove)

ToRemove(groups, dirs, to_remove) ==
    IF groups = <<>> THEN to_remove
    ELSE LET roots == ParentKeys(Head(groups).dups, dirs, <<>>)
         IN ToRemove(Tail(groups), dirs,
                     IF Len(roots) = 1
                     THEN AddKey(to_remove, Head(groups).keys)
                     ELSE AddKeys(to_remove, roots))

\* for keys in to_remove: del dir_dups[keys]           (KeyError: ok = FALSE)
RECURSIVE DelGroups(_, _)
DelGroups(groups, to_remove) ==
    IF to_remove = <<>> THEN [groups |-> groups, ok |-> TRUE]
    ELSE IF ~HasKey(groups, Head(to_remove)) THEN [groups |-> groups, ok |-> FALSE]
    ELSE DelGroups(SelectSeq(groups, LAMBDA g : g.keys # Head(to_remove)),
                   Tail(to_remove))

filter_subdirs(groups, dirs) == DelGroups(groups, ToRemove(groups, dirs, <<>>))

GroupLists(groups) == [i \in DOMAIN groups |-> groups[i].dups]

\* lines 911-931 and 990-1010: the count filter, then the size filter
CountAndSize(groups, count, min, max) ==
    LET g1 == IF count # 0
              THEN filter_dups_groups(groups, LAMBDA dups : TooFew(count, dups))
              ELSE groups
    IN IF min # None \/ max # None
       THEN filter_dups_groups(g1, LAMBDA dups : OutOfRange(dups[1].size, min, max))
       ELSE g1

\* lines 933-936
Compact(groups, dirs) ==
    IF ~params.no_combine_dirs THEN filter_subdirs(groups, dirs)
    ELSE [groups |-> groups, ok |-> TRUE]

\* lines 938-947; groups is the dictionary as the deletions leave it
DirResult(r) ==
    [res |-> IF r.groups = <<>> THEN None ELSE GroupLists(r.groups),
     groups |-> r.groups, ok |-> r.ok]

filter_dir_dups_groups(dups_groups, dirs) ==
    IF dups_groups = <<>> THEN [res |-> None, groups |-> dups_groups, ok |-> TRUE]
    ELSE DirResult(Compact(CountAndSize(dups_groups, params.dups_dirs_count,
                                        params.min_dir_size, params.max_dir_size),
                           dirs))

\* InDirs that finds no member in directory scope
InDirs_none(dups, dirs) == <<>>

\* lines 1019-1026
InDirs(dups, dirs) ==
    IF ~params.files_only THEN SelectSeq(dups, LAMBDA d : Has(dirs, d.root)) ELSE <<>>

InFree(dups, dirs) ==
    IF ~params.files_only THEN SelectSeq(dups, LAMBDA d : ~Has(dirs, d.root)) ELSE dups

\* Covered that looks at the free-standing members only
Covered_strict(dups, dirs) == InFree(dups, dirs) = <<>> /\ ~params.files_only

\* line 1028
Covered(dups, dirs) ==
    ~(InFree(dups, dirs) # <<>> \/ params.no_combine_files \/ params.files_only)

Mark(dups, flag) == [i \in DOMAIN dups |-> [dups[i] EXCEPT !.into = flag]]

\* Resolve that puts the free-standing members first
Resolve_free_first(dups, dirs) ==
    Mark(InFree(dups, dirs), FALSE) \o Mark(InDirs(dups, dirs), TRUE)

\* lines 1032-1055: [dup_save] + dups_act
Resolve(dups, dirs) ==
    LET in_dirs == InDirs(dups, dirs)
        in_free == InFree(dups, dirs)
    IN IF in_dirs # <<>>
       THEN Mark(in_dirs, TRUE) \o Mark(in_free, FALSE)
       ELSE Mark(in_free, FALSE)

\* lines 1036-1052 write "into" on the records themselves, which the group
\* dictionary and the catalog share
MarkInPlace(recs, paths, dirs) ==
    [i \in DOMAIN recs |->
       IF recs[i].path \in paths
       THEN [recs[i] EXCEPT !.into = ~params.files_only /\ Has(dirs, recs[i].root)]
       ELSE recs[i]]

KeptPaths(groups, dirs) ==
    UNION {Paths(groups[i].dups) :
             i \in {j \in DOMAIN groups : ~Covered(groups[j].dups, dirs)}}

\* lines 1012-1061
FileResult(groups, dirs) ==
    [res |-> GroupLists([i \in DOMAIN SelectSeq(groups, LAMBDA g : ~Covered(g.dups, dirs)) |->
                           [dups |-> Resolve(SelectSeq(groups,
                                       LAMBDA g : ~Covered(g.dups, dirs))[i].dups, dirs)]]),
     groups |-> [i \in DOMAIN groups |->
                   [groups[i] EXCEPT !.dups = MarkInPlace(@, KeptPaths(groups, dirs), dirs)]],
     paths |-> KeptPaths(groups, dirs)]

filter_file_dups_groups(dups_groups, dirs) ==
    IF dups_groups = <<>> THEN [res |-> None, groups |-> dups_groups, paths |-> {}]
    ELSE FileResult(CountAndSize(dups_groups, params.dups_files_count,
                                 params.min_file_size, params.max_file_size),
                    dirs)

(***************************************************************************)
(* The file system calls of the action phase.  A call that raises leaves   *)
(* ok = FALSE: nothing in dup.py catches an exception.                     *)
(***************************************************************************)
\* the symbolic links on the way to p, shortest first; the last component
\* counts only when it is followed
LinksOn(dk, p, follow) ==
    {q \in DOMAIN dk.links : Under(q, p) \/ (follow /\ q = p)}

\* the real path of p, or None for a loop of links
RECURSIVE RealPath(_, _, _, _)
RealPath(dk, p, follow, fuel) ==
    LET on == LinksOn(dk, p, follow)
    IN IF on = {} THEN p
       ELSE IF fuel = 0 THEN None
       ELSE LET q == CHOOSE q \in on : \A o \in on : Len(q) <= Len(o)
            IN RealPath(dk, dk.links[q] \o SubSeq(p, Len(q) + 1, Len(p)),
                        follow, fuel - 1)

Real(dk, p, follow) == RealPath(dk, p, follow, Cardinality(DOMAIN dk.links) + 1)

isfile(dk, p) == Real(dk, p, TRUE) \in DOMAIN dk.files

isdir(dk, p) == Real(dk, p, TRUE) \in dk.dirs

lexists(dk, p) ==
    LET r == Real(dk, p, FALSE)
    IN r \in dk.dirs \/ r \in DOMAIN dk.files \/ r \in DOMAIN dk.links

Without(f, S) == [x \in DOMAIN f \ S |-> f[x]]

\* os.remove(p), called on a path that isfile() accepted
os_remove(dk, p) ==
    LET r == Real(dk, p, FALSE)
    IN IF r \in DOMAIN dk.links
       THEN [disk |-> [dk EXCEPT !.links = Without(@, {r})], ok |-> TRUE]
       ELSE IF r \in DOMAIN dk.files
       THEN [disk |-> [dk EXCEPT !.files = Without(@, {r})], ok |-> TRUE]
       ELSE [disk |-> dk, ok |-> FALSE]

\* shutil.rmtree(p), called on a path that isdir() accepted: it refuses a
\* symbolic link and removes everything below the directory otherwise
rmtree(dk, p) ==
    LET r == Real(dk, p, FALSE)
    IN IF r \notin dk.dirs THEN [disk |-> dk, ok |-> FALSE]
       ELSE [disk |-> [dk EXCEPT
                         !.dirs = {d \in dk.dirs : d # r /\ ~Under(r, d)},
                         !.files = Without(dk.files,
                                     {f \in DOMAIN dk.files : Under(r, f)}),
                         !.links = Without(dk.links,
                                     {l \in DOMAIN dk.links : Under(r, l)})],
             ok |-> TRUE]

\* a new name can be made at dst
CanCreate(dk, dst) ==
    LET r == Real(dk, dst, FALSE)
    IN r # None /\ ~lexists(dk, dst) /\ Dirname(r) \in dk.dirs

os_symlink(dk, src, dst) ==
    IF CanCreate(dk, dst)
    THEN [disk |-> [dk EXCEPT !.links = (Real(dk, dst, FALSE) :> src) @@ @],
          ok |-> TRUE]
    ELSE [disk |-> dk, ok |-> FALSE]

\* os.link(src, dst): src must be a regular file
os_link(dk, src, dst) ==
    LET s == Real(dk, src, FALSE)
    IN IF s \in DOMAIN dk.files /\ CanCreate(dk, dst)
       THEN [disk |-> [dk EXCEPT !.files = (Real(dk, dst, FALSE) :> dk.files[s]) @@ @],
             ok |-> TRUE]
       ELSE [disk |-> dk, ok |-> FALSE]

\* lines 1134-1144: one actionable member
\* lines 1141-1144
Relink(r, dup_save, dup) ==
    IF ~r.ok THEN r
    ELSE IF params.symlink THEN os_symlink(r.disk, dup_save.path, dup.path)
    ELSE IF params.hardlink THEN os_link(r.disk, dup_save.path, dup.path)
    ELSE r

ActOn(dk, dup_save, dup) ==
    Relink(IF isfile(dk, dup.path) THEN os_remove(dk, dup.path)
           ELSE IF isdir(dk, dup.path) THEN rmtree(dk, dup.path)
           ELSE [disk |-> dk, ok |-> TRUE],
           dup_save, dup)

RECURSIVE ActOnGroup(_, _, _)
\* for dup in dups[1:]
NextMember(r, dup_save, rest) ==
    IF ~r.ok THEN r ELSE ActOnGroup(r.disk, dup_save, rest)

ActOnGroup(dk, dup_save, rest) ==
    IF rest = <<>> THEN [disk |-> dk, ok |-> TRUE]
    ELSE NextMember(ActOn(dk, dup_save, Head(rest)), dup_save, Tail(rest))

RECURSIVE ActOnGroups(_, _)
\* for dups in dups_groups
NextGroup(r, groups) == IF ~r.ok THEN r ELSE ActOnGroups(r.disk, groups)

ActOnGroups(dk, groups) ==
    IF groups = <<>> THEN [disk |-> dk, ok |-> TRUE]
    ELSE NextGroup(ActOnGroup(dk, Head(groups)[1], Tail(Head(groups))), Tail(groups))

action_dups_groups(dk, dups_groups) ==
    IF dups_groups = <<>> \/ ~(params.symlink \/ params.hardlink \/ params.delete)
    THEN [disk |-> dk, ok |-> TRUE]
    ELSE ActOnGroups(dk, dups_groups)

(***************************************************************************)
(* Inputs: the trees under the scan root and the parsed options.           *)
(***************************************************************************)
R(p) == ScanRoot \o p

Slots == {R(<<"/", "z">>), R(<<"/", "a", "/", "x">>), R(<<"/", "b", "/", "x">>),
          R(<<"/", "c", "/", "y">>), R(<<"/", "a", "/", "d", "/", "x">>),
          R(<<"/", "b", "/", "d", "/", "x">>)}

Contents == {<<>>, <<1, 1>>, <<1, 2>>}

\* the directories a set of files needs, the scan root among them
Ancestors(F) ==
    {ScanRoot} \cup {d \in UNION {{SubSeq(p, 1, i) : i \in 1..Len(p)} : p \in F} :
                       \E p \in F : Under(d, p) /\ Under(ScanRoot, d)}

Tree(F, c, rev) ==
    [dirs |-> Ancestors(F),
     files |-> [p \in F |-> [data |-> c[p], date |-> 1]],
     links |-> [p \in {} |-> p],
     rev |-> rev]

Data == {"size", "firstbytes", "lastbytes", "dircount", "filecount", "hash"}

SizeHash == {"size", "dircount", "filecount", "hash"}

Full == Data \cup {"dirname", "filename"}

\* the options of a run without arguments, --chunk 1
Defaults ==
    [check |-> Data, chunk |-> 1,
     files_only |-> FALSE, dirs_only |-> FALSE,
     no_combine_dirs |-> FALSE, no_combine_files |-> FALSE,
     no_dirs |-> FALSE, no_files |-> FALSE, brief |-> FALSE,
     include_empty_dirs |-> FALSE, include_empty_files |-> FALSE,
     min_file_size |-> None, max_file_size |-> None,
     min_dir_size |-> None, max_dir_size |-> None,
     dups_dirs_count |-> 0, dups_files_count |-> 0,
     exclude_dirs |-> {}, exclude_files |-> {},
     symlink |-> FALSE, hardlink |-> FALSE, delete |-> FALSE]

\* files_only, dirs_only and no_combine_files
Scopes == {[f |-> FALSE, d |-> FALSE, n |-> FALSE], [f |-> FALSE, d |-> FALSE, n |-> TRUE],
           [f |-> TRUE, d |-> FALSE, n |-> FALSE], [f |-> FALSE, d |-> TRUE, n |-> FALSE]}

\* --check and --chunk
Checks == {[c |-> Data, k |-> 1], [c |-> Data, k |-> 2], [c |-> SizeHash, k |-> 2],
           [c |-> Full, k |-> 1]}

Modes == {[s |-> FALSE, h |-> FALSE, d |-> TRUE], [s |-> TRUE, h |-> FALSE, d |-> FALSE],
          [s |-> FALSE, h |-> TRUE, d |-> FALSE]}

PipelineConfigs ==
    {[Defaults EXCEPT !.check = ck.c, !.chunk = ck.k, !.files_only = sc.f,
                      !.dirs_only = sc.d, !.no_combine_files = sc.n] :
        ck \in Checks, sc \in Scopes}

ActionConfigs ==
    {[Defaults EXCEPT !.symlink = m.s, !.hardlink = m.h, !.delete = m.d,
                      !.no_combine_files = ncf, !.no_combine_dirs = ncd] :
        m \in Modes, ncf \in BOOLEAN, ncd \in BOOLEAN}

FilterConfigs ==
    {[Defaults EXCEPT !.dups_dirs_count = n, !.dups_files_count = n,
                      !.max_dir_size = mx, !.include_empty_files = ie,
                      !.include_empty_dirs = ie] :
        n \in {0, 3}, mx \in {None, <<2>>}, ie \in BOOLEAN}
    \cup {[Defaults EXCEPT !.dups_dirs_count = 3, !.dups_files_count = 3,
                           !.delete = TRUE]}

Configs == PipelineConfigs \cup ActionConfigs \cup FilterConfigs

(***************************************************************************)
(* The run: main().                                                        *)
(***************************************************************************)
Init ==
    /\ \E F \in SUBSET Slots :
         /\ F # {}
         /\ Cardinality(F) <= MaxFiles
         /\ \E c \in [F -> Contents], rev \in BOOLEAN : disk = Tree(F, c, rev)
    /\ params \in Configs
    /\ disk0 = disk
    /\ pc = "collect"
    /\ all_dirs = <<>>
    /\ all_files = <<>>
    /\ all_roots = <<>>
    /\ cache = <<>>
    /\ previous = None
    /\ dir_dups = <<>>
    /\ file_dups = <<>>
    /\ res_dir_dups_groups = <<>>
    /\ res_file_dups_groups = <<>>

\* lines 1476-1477
Collect ==
    /\ pc = "collect"
    /\ LET c == collect_data(disk, ScanRoot)
       IN /\ all_dirs' = c.dirs
          /\ all_files' = c.files
          /\ all_roots' = get_roots(c.files)
    /\ pc' = "filter_empty"
    /\ UNCHANGED <<params, previous, disk, disk0, cache, dir_dups, file_dups,
                   res_dir_dups_groups, res_file_dups_groups>>

\* line 1479
FilterEmpty ==
    /\ pc = "filter_empty"
    /\ LET r == filter_empty(all_dirs, all_files, all_roots)
       IN /\ all_dirs' = r.dirs
          /\ all_files' = r.files
          /\ pc' = IF r.ok THEN "filter_files_only" ELSE "crashed"
    /\ UNCHANGED <<params, previous, disk, disk0, all_roots, cache, dir_dups, file_dups,
                   res_dir_dups_groups, res_file_dups_groups>>

\* line 1480
FilterFilesOnly ==
    /\ pc = "filter_files_only"
    /\ all_files' = filter_files_only(all_files)
    /\ pc' = "filter_exclude"
    /\ UNCHANGED <<params, previous, disk, disk0, all_dirs, all_roots, cache, dir_dups,
                   file_dups, res_dir_dups_groups, res_file_dups_groups>>

\* line 1481
FilterExclude ==
    /\ pc = "filter_exclude"
    /\ LET r == filter_exclude(all_dirs, all_files, all_roots)
       IN /\ all_dirs' = r.dirs
          /\ all_files' = r.files
          /\ pc' = IF r.ok THEN "meta" ELSE "crashed"
    /\ UNCHANGED <<params, previous, disk, disk0, all_roots, cache, dir_dups, file_dups,
                   res_dir_dups_groups, res_file_dups_groups>>

Enabled(stage) ==
    IF stage = "meta" THEN check("filename") \/ check("size") \/ check("date")
    ELSE check(stage)

AnyStage == \E st \in {"meta", "firstbytes", "lastbytes", "hash"} : Enabled(st)

\* Stage that reads the whole catalog again instead of the working set
Stage_rescan(stage, next) ==
    /\ pc = stage
    /\ IF Enabled(stage)
       THEN LET c == collect_data(disk, ScanRoot)
                r == get_duplicates(stage, c.dirs, c.files, all_roots, cache, disk)
            IN /\ all_dirs' = r.dirs
               /\ all_files' = r.files
               /\ cache' = r.cache
               /\ dir_dups' = r.dir_dups
               /\ file_dups' = r.file_dups
       ELSE UNCHANGED <<all_dirs, all_files, cache, dir_dups, file_dups>>
    /\ pc' = next
    /\ UNCHANGED <<params, previous, disk, disk0, all_roots, res_dir_dups_groups,
                   res_file_dups_groups>>

\* one "if check(...)" block of get_all_duplicates
Stage(stage, next) ==
    /\ pc = stage
    /\ IF Enabled(stage)
       THEN LET r == get_duplicates(stage, all_dirs, all_files, all_roots, cache, disk)
            IN /\ all_dirs' = r.dirs
               /\ all_files' = r.files
               /\ cache' = r.cache
               /\ dir_dups' = r.dir_dups
               /\ file_dups' = r.file_dups
       ELSE UNCHANGED <<all_dirs, all_files, cache, dir_dups, file_dups>>
    /\ pc' = next
    /\ UNCHANGED <<params, previous, disk, disk0, all_roots, res_dir_dups_groups,
                   res_file_dups_groups>>

MetaStage == Stage("meta", "firstbytes")

FirstBytesStage == Stage("firstbytes", "lastbytes")

LastBytesStage == Stage("lastbytes", "hash")

\* the last stage; line 629 reads dir_dups, which no stage may have bound
HashStage == Stage("hash", IF AnyStage THEN "filter_dirs" ELSE "crashed")

\* lines 1487-1488
FilterDirGroups ==
    /\ pc = "filter_dirs"
    /\ IF ~params.files_only
       THEN LET r == filter_dir_dups_groups(dir_dups, all_dirs)
            IN /\ res_dir_dups_groups' = r.res
               /\ dir_dups' = r.groups
               /\ pc' = IF r.ok THEN "filter_files" ELSE "crashed"
       ELSE /\ pc' = "filter_files"
            /\ UNCHANGED <<res_dir_dups_groups, dir_dups>>
    /\ UNCHANGED <<params, previous, disk, disk0, all_dirs, all_files, all_roots, cache,
                   file_dups, res_file_dups_groups>>

\* lines 1490-1494
FilterFileGroups ==
    /\ pc = "filter_files"
    /\ IF ~params.dirs_only
       THEN LET r == filter_file_dups_groups(file_dups, all_dirs)
            IN /\ res_file_dups_groups' = r.res
               /\ file_dups' = r.groups
               /\ all_files' = MarkInPlace(all_files, r.paths, all_dirs)
       ELSE UNCHANGED <<res_file_dups_groups, file_dups, all_files>>
    /\ pc' = IF params.brief THEN "done" ELSE "action_dirs"
    /\ UNCHANGED <<params, previous, disk, disk0, all_dirs, all_roots, cache,
                   dir_dups, res_dir_dups_groups>>

\* lines 1496-1498
ActionDirs ==
    /\ pc = "action_dirs"
    /\ IF ~params.no_dirs /\ ~params.files_only
       THEN LET r == action_dups_groups(disk, res_dir_dups_groups)
            IN /\ disk' = r.disk
               /\ pc' = IF r.ok THEN "action_files" ELSE "crashed"
       ELSE /\ pc' = "action_files"
            /\ UNCHANGED disk
    /\ UNCHANGED <<params, previous, disk0, all_dirs, all_files, all_roots, cache,
                   dir_dups, file_dups, res_dir_dups_groups, res_file_dups_groups>>

\* lines 1500-1504
ActionFiles ==
    /\ pc = "action_files"
    /\ IF ~params.no_files /\ ~params.dirs_only
       THEN LET r == action_dups_groups(disk, res_file_dups_groups)
            IN /\ disk' = r.disk
               /\ pc' = IF r.ok THEN "done" ELSE "crashed"
       ELSE /\ pc' = "done"
            /\ UNCHANGED disk
    /\ UNCHANGED <<params, previous, disk0, all_dirs, all_files, all_roots, cache,
                   dir_dups, file_dups, res_dir_dups_groups, res_file_dups_groups>>

Next ==
    \/ Collect
    \/ FilterEmpty
    \/ FilterFilesOnly
    \/ FilterExclude
    \/ MetaStage
    \/ FirstBytesStage
    \/ LastBytesStage
    \/ HashStage
    \/ FilterDirGroups
    \/ FilterFileGroups
    \/ ActionDirs
    \/ ActionFiles

Spec == Init /\ [][Next]_vars

(***************************************************************************)
(* A second family of inputs, for compaction: four directories a, b, c, d, *)
(* each with the same sub-directory s/x, and a file y in some of them.     *)
(***************************************************************************)
Parents == {R(<<"/", "a">>), R(<<"/", "b">>), R(<<"/", "c">>), R(<<"/", "d">>)}

NestedFiles(E) ==
    {P \o <<"/", "s", "/", "x">> : P \in Parents} \cup {P \o <<"/", "y">> : P \in E}

NestedContents(E, c) ==
    [p \in NestedFiles(E) |-> IF Dirname(p) \in E THEN c[Dirname(p)] ELSE <<1, 1>>]

CompactConfigs ==
    {Defaults, [Defaults EXCEPT !.no_combine_dirs = TRUE],
     [Defaults EXCEPT !.no_combine_files = TRUE], [Defaults EXCEPT !.delete = TRUE]}

InitNested ==
    /\ \E E \in SUBSET Parents :
         \E c \in [E -> {<<1, 1>>, <<1, 2>>}], rev \in BOOLEAN :
            disk = Tree(NestedFiles(E), NestedContents(E, c), rev)
    /\ params \in CompactConfigs
    /\ disk0 = disk
    /\ pc = "collect"
    /\ all_dirs = <<>>
    /\ all_files = <<>>
    /\ all_roots = <<>>
    /\ cache = <<>>
    /\ previous = None
    /\ dir_dups = <<>>
    /\ file_dups = <<>>
    /\ res_dir_dups_groups = <<>>
    /\ res_file_dups_groups = <<>>

SpecNested == InitNested /\ [][Next]_vars

(***************************************************************************)
(* A second run of the program on the tree the first run left: main()      *)
(* starts again and cache.load() reads what cache.save() wrote after the   *)
(* hashing stages.  previous keeps what the first run reported.            *)
(***************************************************************************)
WarmConfigs == PipelineConfigs \cup {[Defaults EXCEPT !.delete = TRUE]}

InitWarm ==
    /\ \E F \in SUBSET Slots :
         /\ F # {}
         /\ Cardinality(F) <= MaxFiles
         /\ \E c \in [F -> Contents], rev \in BOOLEAN : disk = Tree(F, c, rev)
    /\ params \in WarmConfigs
    /\ disk0 = disk
    /\ pc = "collect"
    /\ all_dirs = <<>>
    /\ all_files = <<>>
    /\ all_roots = <<>>
    /\ cache = <<>>
    /\ previous = None
    /\ dir_dups = <<>>
    /\ file_dups = <<>>
    /\ res_dir_dups_groups = <<>>
    /\ res_file_dups_groups = <<>>

\* lines 1473-1474 of a second invocation: every name is bound anew, the cache
\* is the one the first invocation saved
Rerun ==
    /\ pc = "done"
    /\ previous = None
    /\ previous' = [dirs |-> res_dir_dups_groups, files |-> res_file_dups_groups,
                    disk |-> disk]
    /\ pc' = "collect"
    /\ all_dirs' = <<>>
    /\ all_files' = <<>>
    /\ all_roots' = <<>>
    /\ dir_dups' = <<>>
    /\ file_dups' = <<>>
    /\ res_dir_dups_groups' = <<>>
    /\ res_file_dups_groups' = <<>>
    /\ UNCHANGED <<params, disk, disk0, cache>>

NextWarm == Next \/ Rerun

SpecWarm == InitWarm /\ [][NextWarm]_vars

(***************************************************************************)
(* A third family of inputs, for the metadata stage: up to three files of  *)
(* one, two or three names, of size 1 or 2 and modification time 1 or 2,   *)
(* under every non-empty choice of filename, size and date in --check.     *)
(***************************************************************************)
MetaSlots == {R(<<"/", "a", "/", "x">>), R(<<"/", "b", "/", "x">>),
              R(<<"/", "c", "/", "y">>)}

MetaContents == {<<1>>, <<1, 1>>, <<1, 2>>}

MetaDates == {1, 2}

MetaChecks == SUBSET {"filename", "size", "date"} \ {{}}

InitMeta ==
    /\ \E F \in SUBSET MetaSlots :
         /\ F # {}
         /\ \E c \in [F -> MetaContents], t \in [F -> MetaDates], rev \in BOOLEAN :
              disk = [Tree(F, c, rev) EXCEPT
                        !.files = [p \in F |-> [data |-> c[p], date |-> t[p]]]]
    /\ \E ck \in MetaChecks, fo \in BOOLEAN :
         params = [Defaults EXCEPT !.check = ck, !.files_only = fo]
    /\ disk0 = disk
    /\ pc = "collect"
    /\ all_dirs = <<>>
    /\ all_files = <<>>
    /\ all_roots = <<>>
    /\ cache = <<>>
    /\ previous = None
    /\ dir_dups = <<>>
    /\ file_dups = <<>>
    /\ res_dir_dups_groups = <<>>
    /\ res_file_dups_groups = <<>>

SpecMeta == InitMeta /\ [][Next]_vars

(***************************************************************************)
(* A fourth family of inputs, for the directory fold: a directory a with   *)
(* two sub-directories c and d, a directory b with one sub-directory s and *)
(* one sub-sub-directory s/d, and a directory b-x, whose path sorts        *)
(* between b and b/s; a file x in any of the five, under --check           *)
(* firstbytes, --check hash and the default.                               *)
(***************************************************************************)
FoldSlots == {R(<<"/", "a", "/", "c", "/", "x">>), R(<<"/", "a", "/", "d", "/", "x">>),
              R(<<"/", "b", "/", "s", "/", "x">>),
              R(<<"/", "b", "/", "s", "/", "d", "/", "x">>),
              R(<<"/", "b", "-", "x", "/", "x">>)}

FoldContents == {<<1, 1>>, <<1, 2>>}

FoldChecks == {{"firstbytes"}, {"hash"}, Data}

InitFold ==
    /\ \E F \in SUBSET FoldSlots :
         /\ F # {}
         /\ \E c \in [F -> FoldContents], rev \in BOOLEAN : disk = Tree(F, c, rev)
    /\ \E ck \in FoldChecks : params = [Defaults EXCEPT !.check = ck]
    /\ disk0 = disk
    /\ pc = "collect"
    /\ all_dirs = <<>>
    /\ all_files = <<>>
    /\ all_roots = <<>>
    /\ cache = <<>>
    /\ previous = None
    /\ dir_dups = <<>>
    /\ file_dups = <<>>
    /\ res_dir_dups_groups = <<>>
    /\ res_file_dups_groups = <<>>

SpecFold == InitFold /\ [][Next]_vars

(***************************************************************************)
(* A fifth family of inputs, for the pre-filters: directories a and b, each *)
(* with a file x and a sub-directory d with a file x, files that may be    *)
(* empty, under --exclude-dirs '*/d', --exclude-files '*/d/x',             *)
(* --include-empty-files, --include-empty-dirs and --dirs-only.            *)
(***************************************************************************)
FilterSlots == {R(<<"/", "a", "/", "x">>), R(<<"/", "b", "/", "x">>),
                R(<<"/", "a", "/", "d", "/", "x">>), R(<<"/", "b", "/", "d", "/", "x">>)}

ExcludeDirs == {{}, {[star |-> TRUE, lit |-> <<"/", "d">>]}}

ExcludeFiles == {{}, {[star |-> TRUE, lit |-> <<"/", "d", "/", "x">>]}}

PreFilterConfigs ==
    {[Defaults EXCEPT !.dirs_only = dm, !.exclude_dirs = xd, !.exclude_files = xf,
                      !.include_empty_files = ief, !.include_empty_dirs = ied] :
        dm \in BOOLEAN, xd \in ExcludeDirs, xf \in ExcludeFiles,
        ief \in BOOLEAN, ied \in BOOLEAN}

InitFilter ==
    /\ \E F \in SUBSET FilterSlots :
         /\ F # {}
         /\ \E c \in [F -> Contents], rev \in BOOLEAN : disk = Tree(F, c, rev)
    /\ params \in PreFilterConfigs
    /\ disk0 = disk
    /\ pc = "collect"
    /\ all_dirs = <<>>
    /\ all_files = <<>>
    /\ all_roots = <<>>
    /\ cache = <<>>
    /\ previous = None
    /\ dir_dups = <<>>
    /\ file_dups = <<>>
    /\ res_dir_dups_groups = <<>>
    /\ res_file_dups_groups = <<>>

SpecFilter == InitFilter /\ [][Next]_vars

(***************************************************************************)
(* The trees of the second family under the group filters that run before  *)
(* compaction: --dups-dirs-count 3, --max-dir-size 2, --no-combine-dirs.   *)
(***************************************************************************)
GroupConfigs ==
    {[Defaults EXCEPT !.dups_dirs_count = n, !.max_dir_size = mx,
                      !.no_combine_dirs = ncd] :
        n \in {0, 3}, mx \in {None, <<2>>}, ncd \in BOOLEAN}

InitGroups ==
    /\ \E E \in SUBSET Parents :
         \E c \in [E -> {<<1, 1>>, <<1, 2>>}], rev \in BOOLEAN :
            disk = Tree(NestedFiles(E), NestedContents(E, c), rev)
    /\ params \in GroupConfigs
    /\ disk0 = disk
    /\ pc = "collect"
    /\ all_dirs = <<>>
    /\ all_files = <<>>
    /\ all_roots = <<>>
    /\ cache = <<>>
    /\ previous = None
    /\ dir_dups = <<>>
    /\ file_dups = <<>>
    /\ res_dir_dups_groups = <<>>
    /\ res_file_dups_groups = <<>>

SpecGroups == InitGroups /\ [][Next]_vars

(***************************************************************************)
(* Properties of the run.                                                  *)
(***************************************************************************)
\* the elimination stages have all run
Piped == pc \in {"filter_dirs", "filter_files", "action_dirs", "action_files", "done"}

\* the resolver has run
Resolved == pc \in {"action_dirs", "action_files", "done"}

Acting == params.symlink \/ params.hardlink \/ params.delete

PathSeq(recs) == [i \in DOMAIN recs |-> recs[i].path]

\* a list of two or more records with distinct paths and one key
Duplicates(dups) ==
    /\ Len(dups) >= 2
    /\ \A i, j \in DOMAIN dups :
         /\ dups[i].keys = dups[j].keys
         /\ i # j => dups[i].path # dups[j].path

\* the key of rec is carried by no other record of recs
UniqueIn(rec, recs) ==
    \A i \in DOMAIN recs : recs[i].keys = rec.keys => recs[i].path = rec.path

InGroups(path, lists) ==
    \E i \in DOMAIN lists : \E j \in DOMAIN lists[i] : lists[i][j].path = path

AllDuplicates(lists) == \A i \in DOMAIN lists : Duplicates(lists[i])

NoUnique(recs, lists) ==
    \A i \in DOMAIN recs : UniqueIn(recs[i], recs) => ~InGroups(recs[i].path, lists)

\* the files of the tree the run started from, and their bytes
Files0 == DOMAIN disk0.files

Data0(p) == disk0.files[p].data

FileIntact(p) ==
    /\ isfile(disk, p)
    /\ disk.files[Real(disk, p, TRUE)].data = Data0(p)

\* the directory is still there with every file it had
DirIntact(d) ==
    /\ isdir(disk, d)
    /\ \A f \in Files0 : Under(d, f) => FileIntact(f)

\* C2: after the action phase has processed the directory groups and then the
\* file groups, the canonical member of every group is still there with the
\* content it had.
C2_CanonicalKept ==
    (pc = "done" /\ Acting) =>
        /\ \A i \in DOMAIN res_dir_dups_groups :
             DirIntact(res_dir_dups_groups[i][1].path)
        /\ \A i \in DOMAIN res_file_dups_groups :
             FileIntact(res_file_dups_groups[i][1].path)

\* two files of one size and date, no larger than a chunk, with different bytes
SmallAndDifferent(f, g) ==
    /\ f.size = g.size
    /\ f.date = g.date
    /\ f.size <= params.chunk
    /\ Data0(f.path) # Data0(g.path)

\* C3: with the metadata stage and the full-hash stage enabled, two files of
\* one size and date that are no larger than the chunk size and differ in
\* content never end in one file group.
C3_SmallFilesSplit ==
    (Piped /\ Enabled("meta") /\ check("hash")) =>
        \A i \in DOMAIN file_dups :
            \A j, k \in DOMAIN file_dups[i].dups :
                ~SmallAndDifferent(file_dups[i].dups[j], file_dups[i].dups[k])

Stages == {"meta", "firstbytes", "lastbytes", "hash"}

\* a step of a stage adds no record to either working set
Shrinks ==
    pc \in Stages =>
        /\ Paths(all_files') \subseteq Paths(all_files)
        /\ Paths(all_dirs') \subseteq Paths(all_dirs)

\* C4: every elimination stage leaves a file working set and a directory
\* working set that are subsets of the ones it was given.
C4_StagesShrink == [][Shrinks]_vars

\* the stages have eliminated a file with bytes and a directory, and kept others
C4_Witness ==
    /\ pc = "filter_dirs"
    /\ all_files # <<>>
    /\ all_dirs # <<>>
    /\ \E p \in Files0 : Data0(p) # <<>> /\ p \notin Paths(all_files)

\* no group filter is configured
Unfiltered ==
    /\ params.dups_dirs_count = 0 /\ params.dups_files_count = 0
    /\ params.min_dir_size = None /\ params.max_dir_size = None
    /\ params.min_file_size = None /\ params.max_file_size = None

\* the tree is two directories A and B with one file x each, of the same bytes
TwoDirs(A, B) ==
    /\ Files0 = {A \o <<"/", "x">>, B \o <<"/", "x">>}
    /\ Data0(A \o <<"/", "x">>) = Data0(B \o <<"/", "x">>)
    /\ Data0(A \o <<"/", "x">>) # <<>>

DirA == R(<<"/", "a">>)

DirB == R(<<"/", "b">>)

\* one list, of exactly these paths
OneGroupOf(lists, S) ==
    /\ Len(lists) = 1
    /\ Len(lists[1]) = Cardinality(S)
    /\ Paths(lists[1]) = S

Scattered ==
    /\ Cardinality(Files0) = 3
    /\ \A p, q \in Files0 :
         /\ Data0(p) = Data0(q)
         /\ Data0(p) # <<>>
         /\ p # q => Basename(p) # Basename(q) /\ Dirname(p) # Dirname(q)

\* the paths of Files0 in the order collect_data inserted them
Catalog == PathSeq(collect_data(disk0, ScanRoot).files)

\* the parent of the file is in the directory working set
Tracked(p) == ~params.files_only /\ Has(all_dirs, Dirname(p))

FirstOf(paths) == paths[1]

ScatteredRun ==
    /\ Resolved /\ Scattered /\ ~check("filename") /\ ~params.dirs_only
    /\ params.dups_files_count <= 3

ReportedWhole(dups, lists) ==
    \E i \in DOMAIN lists :
        Len(lists[i]) = Len(dups) /\ Paths(lists[i]) = Paths(dups)

NotReported(dups, lists) == \A j \in DOMAIN dups : ~InGroups(dups[j].path, lists)

\* the keys compaction schedules once the count and size filters have run
Scheduled ==
    IF params.no_combine_dirs THEN <<>>
    ELSE ToRemove(CountAndSize(dir_dups, params.dups_dirs_count,
                               params.min_dir_size, params.max_dir_size),
                  all_dirs, <<>>)

\* the step of filter_dir_dups_groups
CountOnDirs ==
    (pc = "filter_dirs" /\ ~params.files_only /\ pc' # "crashed") =>
        \A i \in DOMAIN dir_dups :
            IF Len(dir_dups[i].dups) < params.dups_dirs_count
            THEN /\ NotReported(dir_dups[i].dups, res_dir_dups_groups')
                 /\ ~HasKey(dir_dups', dir_dups[i].keys)
            ELSE (/\ ~OutOfRange(dir_dups[i].dups[1].size, params.min_dir_size,
                                 params.max_dir_size)
                  /\ dir_dups[i].keys \notin Range(Scheduled))
                 => ReportedWhole(dir_dups[i].dups, res_dir_dups_groups')

\* the step of filter_file_dups_groups
CountOnFiles ==
    (pc = "filter_files" /\ ~params.dirs_only) =>
        \A i \in DOMAIN file_dups :
            IF Len(file_dups[i].dups) < params.dups_files_count
            THEN /\ NotReported(file_dups[i].dups, res_file_dups_groups')
                 /\ ~HasKey(file_dups', file_dups[i].keys)
            ELSE (/\ ~OutOfRange(file_dups[i].dups[1].size, params.min_file_size,
                                 params.max_file_size)
                  /\ ~Covered(file_dups[i].dups, all_dirs))
                 => ReportedWhole(file_dups[i].dups, res_file_dups_groups')

\* the file is an actionable member of a list, or lies under one
Actionable(f, lists) ==
    \E i \in DOMAIN lists : \E j \in 2..Len(lists[i]) :
        f = lists[i][j].path \/ Under(lists[i][j].path, f)

\* the steps of the action phase, when a minimum count is configured
CountOnActions ==
    /\ (pc = "action_dirs" /\ params.dups_dirs_count > 0) =>
         \A f \in DOMAIN disk.files \ DOMAIN disk'.files :
             Actionable(f, res_dir_dups_groups)
    /\ (pc = "action_files" /\ params.dups_files_count > 0) =>
         \A f \in DOMAIN disk.files \ DOMAIN disk'.files :
             Actionable(f, res_file_dups_groups)

CountFilter == CountOnDirs /\ CountOnFiles /\ CountOnActions

Compacted == Resolved /\ ~params.no_combine_dirs /\ ~params.files_only

ParentTracked(d) == d.root # None /\ Has(all_dirs, d.root)

\* the parent is in the working set and another directory carries its key
ParentDuplicated(d) ==
    /\ ParentTracked(d)
    /\ \E i \in DOMAIN all_dirs :
         /\ all_dirs[i].path # d.root
         /\ all_dirs[i].keys = Get(all_dirs, d.root).keys

\* every member's parent is in the working set, all with one key
OneParentKey(dups) ==
    /\ \A j \in DOMAIN dups : ParentTracked(dups[j])
    /\ \A j, k \in DOMAIN dups :
         Get(all_dirs, dups[j].root).keys = Get(all_dirs, dups[k].root).keys

\* C8 as stated: after compaction no reported directory group has every
\* member's parent in the directory working set with a key that another
\* directory shares.
C8_NoSubsumedGroup ==
    Compacted =>
        \A i \in DOMAIN res_dir_dups_groups :
            \E j \in DOMAIN res_dir_dups_groups[i] :
                ~ParentDuplicated(res_dir_dups_groups[i][j])

\* C8 as the code has it: after compaction no reported directory group has
\* every member's parent in the directory working set with one common key.
C8_NoGroupUnderOneParentKey ==
    Compacted =>
        \A i \in DOMAIN res_dir_dups_groups : ~OneParentKey(res_dir_dups_groups[i])

\* two directories of one key, under parents of one key, are in the working
\* set and compaction has left the parents' group only
C8_Witness ==
    /\ pc = "done"
    /\ ~params.no_combine_dirs
    /\ res_dir_dups_groups # <<>>
    /\ \E i, j \in DOMAIN all_dirs :
         /\ i # j
         /\ all_dirs[i].keys = all_dirs[j].keys
         /\ OneParentKey(<<all_dirs[i], all_dirs[j]>>)
         /\ ~InGroups(all_dirs[i].path, res_dir_dups_groups)

Resolving == Resolved /\ ~params.dirs_only

InScope(f) == Has(all_dirs, f.root)

FreeStanding(f) == ~Has(all_dirs, f.root)

\* C9: outside files-only mode every reported file group is a group of the
\* pipeline with its in-directory-scope members first, in their order, then its
\* free-standing members, in theirs: the canonical member, at position 0, is
\* the first in-scope member if there is one and the first free-standing one
\* otherwise, and the list is a permutation of the group; the in-scope members
\* and only they are flagged "into".
C9_InScopeFirst ==
    (Resolving /\ ~params.files_only) =>
        \A i \in DOMAIN res_file_dups_groups :
            /\ \E k \in DOMAIN file_dups :
                 PathSeq(res_file_dups_groups[i]) =
                     PathSeq(SelectSeq(file_dups[k].dups, InScope))
                     \o PathSeq(SelectSeq(file_dups[k].dups, FreeStanding))
            /\ \A j \in DOMAIN res_file_dups_groups[i] :
                 res_file_dups_groups[i][j].into = InScope(res_file_dups_groups[i][j])

\* a reported file group with an in-scope canonical member and a free-standing
\* actionable one that came before it in the pipeline's group
C9_Witness ==
    /\ pc = "done"
    /\ ~params.files_only
    /\ \E i \in DOMAIN res_file_dups_groups :
         /\ res_file_dups_groups[i][1].into
         /\ ~res_file_dups_groups[i][Len(res_file_dups_groups[i])].into
         /\ \E k \in DOMAIN file_dups :
              file_dups[k].dups[1].path =
                  res_file_dups_groups[i][Len(res_file_dups_groups[i])].path

SkipCovered == ~params.no_combine_files /\ ~params.files_only

ActionAborts == pc \in {"action_dirs", "action_files"} /\ pc' = "crashed"

\* C11: a delete or link operation that fails on one member of a group does
\* not abort the run: no step of the action phase ends it.
C11_ActionNeverAborts == [][~ActionAborts]_vars

(***************************************************************************)
(* C12: the second run, with the cache of the first.                       *)
(***************************************************************************)
\* the second run, on the tree the first run started from
SecondRun == previous # None /\ previous.disk = disk0 /\ disk = disk0

\* the digest get_file_hash would compute for a cache key of a file on disk
Recomputed(k) == Blake2b(ReadBytes(disk.files[k[1]].data, k[2], k[3]))

CacheValid ==
    \A k \in DOMAIN cache : k[1] \in DOMAIN disk.files => cache[k] = Recomputed(k)

\* C12: a second run of the whole pipeline on an unchanged tree, with the
\* cache the first run saved, does not fail and reports the same directory and
\* file groups, with the same members in the same order (so the same canonical
\* member); and every digest in the cache for (node, offset, size) is the
\* digest that reading the file would give.
C12_WarmRunSame ==
    /\ (disk = disk0 => CacheValid)
    /\ (SecondRun => pc # "crashed")
    /\ (SecondRun /\ Resolved
          => /\ res_dir_dups_groups = previous.dirs
             /\ res_file_dups_groups = previous.files)

\* a second run has finished with directory and file groups, served from a
\* cache that holds digests
C12_Witness ==
    /\ SecondRun
    /\ pc = "done"
    /\ cache # <<>>
    /\ res_dir_dups_groups # <<>>
    /\ res_file_dups_groups # <<>>

(***************************************************************************)
(* C13: the discriminator of the metadata stage.                           *)
(***************************************************************************)
\* two files agree on every attribute among name, size and modification time
\* that --check enables
Agree(f, g) ==
    /\ (check("filename") => f.name = g.name)
    /\ (check("size") => f.size = g.size)
    /\ (check("date") => f.date = g.date)

\* the metadata stage has just run, as the first stage
AfterMeta == pc = "firstbytes" /\ Enabled("meta")

\* C13: after the metadata stage two files of the working set carry equal
\* discriminators if and only if they agree on every enabled attribute among
\* name, size and modification time.
C13_MetaKeyAllAttributes ==
    AfterMeta =>
      \A i, j \in DOMAIN all_files :
         (all_files[i].keys = all_files[j].keys) <=> Agree(all_files[i], all_files[j])

(***************************************************************************)
(* C14: a unique file and the chain of its parents.                        *)
(***************************************************************************)
\* the working-set directories from d upwards, as far as each one's parent is
\* in the working set
RECURSIVE Chain(_, _)
Chain(d, dirs) ==
    IF d = None \/ ~Has(dirs, d) THEN {}
    ELSE {d} \cup Chain(Get(dirs, d).root, Del(dirs, d))

\* the records whose key no other record carries
UniqueRecs(recs) == SelectSeq(recs, LAMBDA r : UniqueIn(r, recs))

\* the files of the working set with the key the running stage gives them
KeyedNow == FileKeys(pc, all_files, 1, cache, disk).files

\* every file of the list is gone from the file working set, and so is every
\* directory of the chain of its parents
Unwound(recs) ==
    \A i \in DOMAIN recs :
       /\ ~Has(all_files', recs[i].path)
       /\ \A d \in Chain(recs[i].root, all_dirs) : ~Has(all_dirs', d)

UniqueFilesUnwound ==
    (pc \in Stages /\ Enabled(pc) /\ ~params.files_only)
      => Unwound(UniqueRecs(KeyedNow))

\* C14: in a run that is not files-only, a stage removes every file whose key
\* is unique from the file working set, and removes its parent directory and
\* each successive parent from the directory working set, up to the first one
\* that is not in the working set or does not exist.
C14_UniqueFileUnwinds == [][UniqueFilesUnwound]_vars

\* the metadata stage compared names: a file below a sub-directory, with a
\* name no other file has, is gone with its parent and the scan root, while
\* other files remain
C14_Witness ==
    /\ AfterMeta /\ check("filename") /\ ~params.files_only
    /\ all_files # <<>>
    /\ \E p \in Files0 :
         /\ Data0(p) # <<>> /\ Dirname(p) # ScanRoot
         /\ \A q \in Files0 \ {p} : Basename(q) # Basename(p)
         /\ ~Has(all_files, p)
         /\ ~Has(all_dirs, Dirname(p)) /\ ~Has(all_dirs, ScanRoot)

(***************************************************************************)
(* C15: a directory whose key is unique in the grouping step.              *)
(***************************************************************************)
\* the working sets as they stand when the directories are grouped: the unique
\* files are unwound and every key is folded into the parent's
Folded(stage) ==
    LET k == FileKeys(stage, all_files, 1, cache, disk)
        u == HandleFileGroups(GroupByKeys(k.files, <<>>), DirMetaKeys(all_dirs),
                              k.files, all_roots)
    IN FoldDirKeys(DirOrder(u.dirs), u.dirs)

\* every proper ancestor of a directory of the list stays in the working set
AncestorsStay(recs, dirs) ==
    \A i \in DOMAIN recs :
       \A d \in Chain(recs[i].root, dirs) : Has(all_dirs', d)

UniqueDirsAlone(dirs) == AncestorsStay(UniqueRecs(dirs), dirs)

NoCascade ==
    (pc \in Stages /\ Enabled(pc) /\ ~params.files_only)
      => UniqueDirsAlone(Folded(pc))

\* C15: when the final key of a directory is unique in the grouping step of a
\* stage, the directory alone is removed: its ancestors that were in the
\* working set at the grouping step are still in it after the stage.
C15_UniqueDirNoCascade == [][NoCascade]_vars

\* every directory of the list is gone from the working set, and so is every
\* ancestor that was in the working set
ChainGone(recs, dirs) ==
    \A i \in DOMAIN recs :
       \A d \in Chain(recs[i].path, dirs) : ~Has(all_dirs', d)

UniqueDirsUnwound(dirs) == ChainGone(UniqueRecs(dirs), dirs)

Cascade ==
    (pc \in Stages /\ Enabled(pc) /\ ~params.files_only)
      => UniqueDirsUnwound(Folded(pc))

\* C15 as amended: when the final key of a directory is unique in the grouping
\* step of a stage, the directory is removed from the directory working set
\* and so is each successive parent that was in the working set.
C15_UniqueDirUnwinds == [][Cascade]_vars

\* no file was ever removed, so no directory was unwound for a unique file;
\* a directory below the scan root and its parent are gone from the working
\* set, and other directories remain, in a group
C15_Witness ==
    /\ Piped /\ ~params.files_only
    /\ Len(all_files) = Cardinality(Files0)
    /\ all_dirs # <<>> /\ dir_dups # <<>>
    /\ \E d \in disk0.dirs :
         /\ d # ScanRoot
         /\ ~Has(all_dirs, d) /\ ~Has(all_dirs, Dirname(d))

(***************************************************************************)
(* C16: what a directory fingerprint determines.                           *)
(***************************************************************************)
\* the file working set when the directories are grouped, unique files removed
FilesAtFold(stage) ==
    LET k == FileKeys(stage, all_files, 1, cache, disk)
    IN HandleFileGroups(GroupByKeys(k.files, <<>>), DirMetaKeys(all_dirs),
                        k.files, all_roots).files

\* the metadata key of the directory alone
OwnKey(d) == DirMetaKeys(<<d>>)[1].keys

\* the keys of the files of the directory, in the order lines 510-514 add them
RECURSIVE FileKeySeq(_, _)
FileKeySeq(d, groups) ==
    IF groups = <<>> THEN <<>>
    ELSE LET in == SelectSeq(Head(groups).paths, LAMBDA p : Dirname(p) = d.path)
         IN [i \in DOMAIN in |-> Head(groups).keys] \o FileKeySeq(d, Tail(groups))

\* the fingerprints of the child directories, in the order lines 518-522 fold them
ChildKeySeq(d, dirs) ==
    LET ch == SelectSeq(DirOrder(dirs), LAMBDA p : Get(dirs, p).root = d.path)
    IN [i \in DOMAIN ch |-> Get(dirs, ch[i]).keys]

SameParts(d, e, dirs, groups) ==
    /\ OwnKey(d) = OwnKey(e)
    /\ FileKeySeq(d, groups) = FileKeySeq(e, groups)
    /\ ChildKeySeq(d, dirs) = ChildKeySeq(e, dirs)

Injective(dirs, files) ==
    \A i, j \in DOMAIN dirs :
       dirs[i].keys = dirs[j].keys
         => SameParts(dirs[i], dirs[j], dirs, GroupByKeys(files, <<>>))

\* C16: the delimiter between child keys occurs in no key component, so two
\* directories that a stage gives equal fingerprints have equal metadata keys
\* of their own, equal sequences of file keys and equal sequences of child
\* directory fingerprints.
C16_FingerprintInjective ==
    (pc \in Stages /\ Enabled(pc) /\ ~params.files_only)
      => Injective(Folded(pc), FilesAtFold(pc))

(***************************************************************************)
(* C17: the order of the fold.                                             *)
(***************************************************************************)
\* the position of a path in a list of paths
Index(order, p) == CHOOSE i \in DOMAIN order : order[i] = p

\* every directory comes before its parent
ChildrenFirst(order, dirs) ==
    \A i \in DOMAIN order :
       Has(dirs, Dirname(order[i])) => i < Index(order, Dirname(order[i]))

\* t occurs in s as a run of consecutive elements
Infix(t, s) == \E i \in 0..(Len(s) - Len(t)) : SubSeq(s, i + 1, i + Len(t)) = t

\* the key of a parent that was not compressed holds, after the delimiter,
\* the key of each child as it stands when the fold is over
FoldedWhole(dirs) ==
    \A i, j \in DOMAIN dirs :
       (dirs[i].root = dirs[j].path /\ dirs[j].keys[1] = ":")
         => Infix(<<"/">> \o dirs[i].keys, dirs[j].keys)

\* C17: in the reverse lexicographic path order in which the fold visits the
\* directories every directory comes before its parent, and the key that is
\* folded into a parent is the key of the child after the keys of all the
\* child's own sub-directories were folded into it.
C17_ChildrenBeforeParents ==
    (pc \in Stages /\ Enabled(pc) /\ ~params.files_only)
      => /\ ChildrenFirst(DirOrder(Folded(pc)), Folded(pc))
         /\ FoldedWhole(Folded(pc))

\* a stage is about to fold b/s/d into b/s, b/s into b and b into the scan
\* root, with b-x between b and b/s in path order
C17_Witness ==
    /\ pc \in Stages /\ Enabled(pc) /\ ~params.files_only
    /\ {R(<<"/", "b">>), R(<<"/", "b", "-", "x">>), R(<<"/", "b", "/", "s">>),
        R(<<"/", "b", "/", "s", "/", "d">>), ScanRoot} \subseteq Paths(Folded(pc))
    /\ Get(Folded(pc), ScanRoot).keys[1] = ":"

(***************************************************************************)
(* C18: the decision of the compactor for one group.                       *)
(***************************************************************************)
\* the compactor is about to run, alone among the group filters
Compacting ==
    /\ pc = "filter_dirs" /\ dir_dups # <<>>
    /\ ~params.files_only /\ ~params.no_combine_dirs /\ Unfiltered

\* the keys of the parents of the members whose parent is in the working set
TrackedParentKeys(dups) ==
    {Get(all_dirs, dups[j].root).keys : j \in {j \in DOMAIN dups : ParentTracked(dups[j])}}

\* the key is the key of a parent of a member of some group
IsParentKey(keys) == \E i \in DOMAIN dir_dups : keys \in TrackedParentKeys(dir_dups[i].dups)

\* a group under parents of one key is dropped; any other group is kept, unless
\* its key is a parent key of some group, and when its members' parents have
\* two or more keys the groups of all these keys are removed
Decision(g) ==
    IF OneParentKey(g.dups) THEN ~HasKey(dir_dups', g.keys)
    ELSE /\ (~IsParentKey(g.keys) => HasKey(dir_dups', g.keys))
         /\ (Cardinality(TrackedParentKeys(g.dups)) > 1
               => \A k \in TrackedParentKeys(g.dups) : ~HasKey(dir_dups', k))

Decisions ==
    Compacting => /\ pc' # "crashed"
                  /\ \A i \in DOMAIN dir_dups : Decision(dir_dups[i])

\* C18: the compactor drops a directory group when every member's parent is
\* tracked and all these parents share one key; when the parents' keys differ,
\* or a member at any position has an untracked parent, it keeps the group and
\* removes the groups of the differing parent keys; the removals are applied
\* after the pass over all groups.
C18_CompactorDecision == [][Decisions]_vars

(***************************************************************************)
(* C19: the members of the final groups are in the working sets.           *)
(***************************************************************************)
\* every record of every list is a record of the working set
AllIn(lists, recs) ==
    \A i \in DOMAIN lists : \A j \in DOMAIN lists[i] : Has(recs, lists[i][j].path)

\* C19: when the stages have run, every member of a directory group is in the
\* directory working set and every member of a file group is in the file
\* working set, in the groups the stages return and in the groups reported.
C19_MembersInWorkingSet ==
    /\ Piped => /\ AllIn(GroupLists(dir_dups), all_dirs)
                /\ AllIn(GroupLists(file_dups), all_files)
    /\ Resolved => /\ AllIn(res_dir_dups_groups, all_dirs)
                   /\ AllIn(res_file_dups_groups, all_files)

(***************************************************************************)
(* C20: a stage called a second time.                                      *)
(***************************************************************************)
\* the stage that ran last, when it was enabled
LastStage ==
    CASE pc = "firstbytes" -> "meta"
      [] pc = "lastbytes" -> "firstbytes"
      [] pc = "hash" -> "lastbytes"
      [] pc = "filter_dirs" -> "hash"
      [] OTHER -> "none"

JustRan == LastStage # "none" /\ Enabled(LastStage)

\* get_duplicates called once more with the discriminator of the last stage
Again == get_duplicates(LastStage, all_dirs, all_files, all_roots, cache, disk)

\* C20: right after a stage has run, a second call of the same stage, with
\* the same discriminator and configuration, removes no file and no directory
\* from the working sets.
C20_StageIdempotent ==
    JustRan => /\ Paths(Again.files) = Paths(all_files)
               /\ Paths(Again.dirs) = Paths(all_dirs)

(***************************************************************************)
(* C21: directories-only mode, the files of an unwound directory.          *)
(***************************************************************************)
\* the step of a stage leaves no file whose directory it removed
FilesGoWithDirs ==
    (pc \in Stages /\ Enabled(pc) /\ params.dirs_only)
      => \A d \in Paths(all_dirs) \ Paths(all_dirs') :
            \A i \in DOMAIN all_files' : all_files'[i].root # d

\* every file of the working set has its parent in the directory working set
ParentsTracked == \A i \in DOMAIN all_files : Has(all_dirs, all_files[i].root)

FilesUnderDirs ==
    /\ FilesGoWithDirs
    /\ (params.dirs_only /\ JustRan) => ParentsTracked

\* C21: in directories-only mode a stage that removes a directory by unwinding
\* removes every file of that directory from the file working set, and after
\* every stage each file of the working set has its parent directory in the
\* directory working set.
C21_DirsOnlyFilesUnwound == [][FilesUnderDirs]_vars

\* directories-only: a file with the bytes of another file is gone from the
\* working set with its directory, and other files remain
C21_Witness ==
    /\ params.dirs_only /\ JustRan /\ params.check = Data
    /\ all_files # <<>>
    /\ \E p, q \in Files0 :
         /\ p # q /\ Data0(p) = Data0(q) /\ Data0(p) # <<>>
         /\ ~Has(all_files, p) /\ ~Has(all_dirs, Dirname(p))
         /\ Has(all_files, q)

(***************************************************************************)
(* C22: no directory stays above a file removed as unique.                 *)
(***************************************************************************)
\* no directory of the working set the step leaves lies above a file of the list
NoneAbove(recs) ==
    \A i \in DOMAIN recs :
       \A j \in DOMAIN all_dirs' : ~Under(all_dirs'[j].path, recs[i].path)

NoUniqueBelow ==
    (pc \in Stages /\ Enabled(pc) /\ ~params.files_only)
      => NoneAbove(UniqueRecs(KeyedNow))

\* C22: in a run that searches directories, a stage leaves no directory in
\* the directory working set that has, at any depth below it, a file the stage
\* removed from the file working set as unique, also when the empty or
\* exclude filters removed directories before the stages.
C22_NoDirAboveUniqueFile == [][NoUniqueBelow]_vars

(***************************************************************************)
(* C26: the pre-filters delete only what is there.                         *)
(***************************************************************************)
\* a pre-filter ends the run: post_filter deleted a path that was absent
PreFilterAborts ==
    pc \in {"filter_empty", "filter_files_only", "filter_exclude"} /\ pc' = "crashed"

\* C26: the empty filter, the files-only size filter and the exclude filter,
\* applied in sequence, never delete a path that is absent from the working
\* set, in every mode, directories-only included.
C26_PreFiltersNeverFail == [][~PreFilterAborts]_vars

(***************************************************************************)
(* C23: a file group dropped as covered.                                   *)
(***************************************************************************)
\* the file lies, at some depth, in a directory of a reported directory group
UnderReported(f) ==
    \E i \in DOMAIN res_dir_dups_groups : \E j \in DOMAIN res_dir_dups_groups[i] :
        Under(res_dir_dups_groups[i][j].path, f)

\* C23: a file group that passed the file filters and is not reported was
\* dropped as covered: each of its members lies in a directory that is a
\* member of a reported directory group, whatever the directory count and
\* size filters and compaction did.
C23_CoveredByReportedDirs ==
    Resolving =>
        \A k \in DOMAIN file_dups :
            NotReported(file_dups[k].dups, res_file_dups_groups)
              => \A j \in DOMAIN file_dups[k].dups :
                    UnderReported(file_dups[k].dups[j].path)

(***************************************************************************)
(* C24 and C25: compaction after the count and size filters.               *)
(***************************************************************************)
\* the compactor is about to run, after whatever filters are set
CompactStep ==
    /\ pc = "filter_dirs" /\ dir_dups # <<>>
    /\ ~params.files_only /\ ~params.no_combine_dirs

\* the groups the count and size filters hand to the compactor
Passed ==
    CountAndSize(dir_dups, params.dups_dirs_count,
                 params.min_dir_size, params.max_dir_size)

\* the compactor saw one key among the parents of the members
Redundant(g) == Len(ParentKeys(g.dups, all_dirs, <<>>)) = 1

\* the group of that parent key is in the result of the step
ParentGroupReported(g) ==
    /\ HasKey(dir_dups', ParentKeys(g.dups, all_dirs, <<>>)[1])
    /\ \E j \in DOMAIN g.dups : InGroups(g.dups[j].root, res_dir_dups_groups')

DroppedForReported ==
    (CompactStep /\ pc' = "filter_files") =>
        \A i \in DOMAIN Passed :
            (Redundant(Passed[i]) /\ ~HasKey(dir_dups', Passed[i].keys))
               => ParentGroupReported(Passed[i])

\* C24: when compaction drops a directory group as redundant, the group of
\* its members' parents is in the final directory result; no group is dropped
\* in favour of a parent group that the count or size filter had removed.
C24_DroppedOnlyForReportedParents == [][DroppedForReported]_vars

\* compaction ends the run: it deleted a key that the dictionary lacks
CompactAborts == CompactStep /\ pc' = "crashed"

\* C25: compaction never fails: every key it schedules for removal is a key
\* of the group dictionary when the removals are applied, whatever the count
\* and size filters removed before it.
C25_CompactionNeverFails == [][~CompactAborts]_vars
====
